---- MODULE Spec2Model ----
(***************************************************************************)
(* Model of src/training.py: the epoch/phase/batch loop of train_model,    *)
(* its best-accuracy tracker, the checkpoint written with torch.save, the  *)
(* learning-rate scheduler and the metric writer.                          *)
(*                                                                         *)
(* Abstractions.                                                           *)
(*  - A state_dict (the weights) is identified with the set of validation  *)
(*    samples the network classifies correctly in evaluation mode with     *)
(*    those weights.  Two weight values are equal iff they classify the    *)
(*    validation split alike; the evaluation-mode forward pass is then the *)
(*    membership test  x \in weights.                                      *)
(*  - The train-mode forward pass (dropout, batch statistics) and the      *)
(*    criterion are opaque: the number of correct predictions of a train   *)
(*    batch and every loss value are nondeterministic choices.             *)
(*  - optimizer.step() may produce any weights.                            *)
(*  - The random permutation of a shuffling DataLoader is drawn batch by   *)
(*    batch: the iterator holds the samples it has not yielded yet and     *)
(*    yields any batch_size of them next.  A batch is a set of samples.    *)
(*  - An accuracy is the exact fraction [n, d] (corrects / dataset size).  *)
(*  - A learning rate is the pair <<T_cur, T_i>> that determines the       *)
(*    cosine-annealing value 0.05 * (1 + cos(pi * T_cur / T_i)) / 2.       *)
(*  - The writer keeps the tag and the step of each scalar; the value is   *)
(*    kept for the lr series only (lr_series).                             *)
(*  - epoch_loss and epoch_acc are dead between the end of one phase and   *)
(*    line 90 of the next; the model clears them at the phase start.       *)
(*  - torch.save opens model_path for writing, which truncates the file,   *)
(*    and then writes the state_dict: two steps of the model.              *)
(*                                                                         *)
(* SpecParams is the parameter-level view: initialize_model step by step,  *)
(* the construction of the optimizer, and backward + optimizer.step() of   *)
(* lines 82-84 acting on the parameters of the two parts of the network,   *)
(* the backbone and the final layer fc.  A part's parameters are one       *)
(* abstract value.  backward() leaves the gradient of a parameter without  *)
(* requires_grad unset, and SGD.step() skips a parameter whose gradient is *)
(* unset.  The loop variables of train_model do not take part in it, nor   *)
(* the parameter variables in Spec.                                        *)
(***************************************************************************)
EXTENDS Integers, Sequences, FiniteSets, TLC

\* ---------------------------------------------------------------- bounds
MaxEpochs == 2
TrainSize == 3
ValSize == 3
BatchSize == 2
MaxClasses == 2
MaxWidth == 2
MaxSteps == 2

\* ------------------------------------------------------ program constants
T_0 == 10
T_mult == 2

\* ----------------------------------------------------------------- data
TrainIdx == 1..TrainSize
ValIdx == 1..ValSize
Weights == SUBSET ValIdx
Losses == {0, 1}
NoWts == {-1}
NoFile == [state |-> "absent", wts |-> NoWts, epoch |-> -1]
Phases == <<"train", "val">>

Dataset(ph) == IF ph = "train" THEN TrainIdx ELSE ValIdx

DatasetLen(ph) == Cardinality(Dataset(ph))

Min(a, b) == IF a < b THEN a ELSE b

\* DataLoader(batch_size, shuffle=True): the batches the iterator may yield
\* next, batch_size samples (fewer when fewer are left) drawn from those it
\* has not yielded yet
NextBatches(rest) ==
  {b \in SUBSET rest : Cardinality(b) = Min(BatchSize, Cardinality(rest))}

\* mutant: the iterator stops after its first batch
AfterBatch_Stop(rest, b) == {}

\* the iterator after yielding batch b
AfterBatch(rest, b) == rest \ b

\* the iterator raises StopIteration
Exhausted(rest) == rest = {}

\* exact fractions
Frac(n, d) == [n |-> n, d |-> d]

Zero == Frac(0, 1)

GT(a, b) == a.n * b.d > b.n * a.d

GE(a, b) == a.n * b.d >= b.n * a.d

EQ(a, b) == a.n * b.d = b.n * a.d

\* ------------------------------------------------------------- scheduler
\* CosineAnnealingWarmRestarts.step(): advance T_cur, restart at T_i
SchedulerStep(s) ==
  IF s.T_cur + 1 >= s.T_i
  THEN [T_cur |-> s.T_cur + 1 - s.T_i, T_i |-> s.T_i * T_mult]
  ELSE [T_cur |-> s.T_cur + 1, T_i |-> s.T_i]

\* get_last_lr()[0]
GetLastLr(s) == <<s.T_cur, s.T_i>>

\* mutant of lines 93-96: the lr scalar is read after scheduler.step()
LrScalar_AfterStep(s) == GetLastLr(SchedulerStep(s))

\* lines 93-95: the value of the lr scalar, read from the scheduler as it
\* is when line 93 runs, before scheduler.step() at line 96
LrScalar(s) == GetLastLr(s)

\* ------------------------------------------------------------- the model
\* evaluation-mode forward pass + arg-max + comparison with the labels
EvalCorrects(w, batch) == Cardinality({x \in batch : x \in w})

\* mutant of lines 44 and 116: best_model_wts holds model.state_dict()
\* itself, whose tensors optimizer.step() updates in place
Deepcopy_Alias(snapshot, live) == live

\* lines 44 and 116: copy.deepcopy(model.state_dict()); the value of the
\* copy after optimizer.step() has made the model's weights `live`
Deepcopy(snapshot, live) == snapshot

\* mutants of line 114: the accuracy is not compared / compared with >=
Improves_Always(ph, acc, best) == ph = "val"

Improves_OrEqual(ph, acc, best) == ph = "val" /\ GE(acc, best)

\* line 114: the test that guards the tracker update and the checkpoint
Improves(ph, acc, best) == ph = "val" /\ GT(acc, best)

\* mutant of line 127: the best snapshot is loaded back before returning
ReturnValue_Best(m, best_wts) == best_wts

\* line 127: the value train_model returns
ReturnValue(m, best_wts) == m

\* mutant of line 47: range(n_epochs + 1)
HasNextEpoch_OneMore(e, n) == e + 1 <= n

\* line 47: range(n_epochs) has a next element after e
HasNextEpoch(e, n) == e + 1 < n

\* mutant of line 52: ['val', 'train']
NextPhase_ValFirst(ph) ==
  IF ph = "none" THEN Phases[2] ELSE IF ph = Phases[2] THEN Phases[1] ELSE "none"

\* line 52: the phase that follows ph in ['train', 'val'] ("none": exhausted)
NextPhase(ph) ==
  IF ph = "none" THEN Phases[1] ELSE IF ph = Phases[1] THEN Phases[2] ELSE "none"

\* mutant of lines 58-59: the accumulators are not reset
ResetAccumulator_Keep(prev) == prev

\* lines 58-59: running_loss = 0.0, running_corrects = 0
ResetAccumulator(prev) == 0

\* lines 53-56: model.train() in the train phase, model.eval() otherwise
TrainMode(ph) == ph = "train"

\* mutant of line 72: gradient tracking enabled in every phase
GradEnabled_Always(ph) == TRUE

\* line 72: torch.set_grad_enabled(phase == 'train')
GradEnabled(ph) == ph = "train"

\* mutant of line 82: backward + optimizer step in every phase
Optimizes_Always(ph) == TRUE

\* line 82: backward + optimizer step only in the train phase
Optimizes(ph) == ph = "train"

\* mutant of line 92: the scheduler is stepped at the end of every phase
StepsScheduler_Always(ph) == TRUE

\* line 92 / 96: the scheduler is stepped at the end of the train phase
StepsScheduler(ph) == ph = "train"

\* lines 68-88: the sub-steps of one batch step, in program order
BatchOps(ph) ==
  <<"zero_grad", "forward", "loss", "preds">>
    \o (IF Optimizes(ph) THEN <<"backward", "step">> ELSE <<>>)
    \o <<"stats">>

\* mutant of lines 92-109: the train branch is taken in every phase
Scalars_TrainOnly(ph) == <<"lr", "training loss", "training acc">>

\* lines 92-109: the tags of the scalars a phase end writes, in program order
Scalars(ph) ==
  IF ph = "train" THEN <<"lr", "training loss", "training acc">>
  ELSE <<"valid loss", "valid acc">>

\* lines 92-109: writer and scheduler calls of a phase end, in program order
EndOps(ph) ==
  IF ph = "train"
  THEN <<"lr", "scheduler.step", "training loss", "training acc">>
  ELSE <<"valid loss", "valid acc">>

\* ------------------------------------------------------- the parameters
Layers == {"backbone", "fc"}
Vals == {0, 1}

\* mutant of lines 26-30: the final layer is replaced before the freeze
InitSteps_ReplaceFirst == <<"load", "read_ftrs", "replace", "freeze", "return">>

\* lines 26-30: the statements of initialize_model, in program order
InitSteps == <<"load", "freeze", "read_ftrs", "replace", "return">>

\* mutant of lines 33-36: the flags are left as they are
SetParameterRequiresGrad_Noop(rg, feature_extracting) == rg

\* lines 33-36: set_parameter_requires_grad
SetParameterRequiresGrad(rg, feature_extracting) ==
  IF feature_extracting THEN [l \in DOMAIN rg |-> FALSE] ELSE rg

\* line 177: the parameters handed to optim.SGD (model_ft.parameters())
OptimizerParams(ls) == ls

\* lines 83-84: the parameters one backward + optimizer.step() may change
Updated(opt, rg) == {l \in opt : rg[l]}

VARIABLES
  pc,               \* control position inside train_model
  n_epochs,         \* argument
  epoch,            \* loop variable of line 47 (-1: not yet bound)
  phase,            \* loop variable of line 52 ("none": not yet bound)
  model,            \* model.state_dict(): the live weights
  training,         \* model.training, set by model.train() / model.eval()
  it_rest,          \* samples the current DataLoader iterator has yet to yield
  it_pos,           \* enumerate's count: batches the loop has taken
  running_loss,
  running_corrects,
  epoch_loss,       \* numerator of running_loss / len(dataset); -1: unset
  epoch_acc,
  best_acc,
  best_model_wts,
  val_acc_history,
  model_path,       \* the file at model_path
  scheduler,        \* exp_lr_scheduler
  writer,           \* add_scalar calls: <<tag, step>>
  lr_series,        \* value argument of the 'lr' scalars
  returned,         \* return value (NoWts until train_model returns)
  \* ---- history variables (observers, never read by the program)
  seen,             \* how often each sample of the split was in a batch
  batch_sizes,      \* inputs.size(0) of the batches of the current phase
  batch_ops,        \* sub-steps of the latest batch step, in order
  fwd_grad,         \* grad mode of the latest forward pass
  step_lr,          \* learning rate used by the latest optimizer.step()
  last_step_wts,    \* weights produced by the latest optimizer.step()
  phase_log,        \* <<epoch, phase>> of every completed phase
  end_ops,          \* writer / scheduler calls of the latest phase end
  n_batches,        \* batch steps, whole run
  n_opt_steps,      \* optimizer.step() calls, whole run
  n_sched_steps,    \* scheduler.step() calls, whole run
  n_saves           \* completed torch.save calls, whole run

VARIABLES
  ipc,              \* index in InitSteps of the next statement (0: not called)
  feat_extract,     \* argument of initialize_model
  use_pretrained,   \* argument of initialize_model
  n_classes,        \* argument of initialize_model
  requires_grad,    \* parameter.requires_grad of each part
  value,            \* parameter values of each part
  fc_dims,          \* <<in_features, out_features>> of model.fc
  num_ftrs,         \* local of initialize_model (0: unset)
  opt_params,       \* parameters held by optimizer_ft ({}: not constructed)
  \* ---- history variables
  feat_width,       \* in_features of the final layer current_model came with
  fc_fresh,         \* model.fc is the layer created at line 29
  init_trace,       \* statements of initialize_model executed, in order
  ret_value,        \* parameter values when initialize_model returned
  touched,          \* parts the latest optimizer.step() updated
  n_steps           \* backward + optimizer.step() calls

prog == <<pc, n_epochs, epoch, phase, model, training, it_rest, it_pos,
          running_loss, running_corrects, epoch_loss, epoch_acc, best_acc,
          best_model_wts, val_acc_history, model_path, scheduler, writer,
          lr_series, returned>>

hist == <<seen, batch_sizes, batch_ops, fwd_grad, step_lr, last_step_wts,
          phase_log, end_ops, n_batches, n_opt_steps, n_sched_steps, n_saves>>

net == <<ipc, feat_extract, use_pretrained, n_classes, requires_grad, value,
         fc_dims, num_ftrs, opt_params, feat_width, fc_fresh, init_trace,
         ret_value, touched, n_steps>>

vars == <<prog, hist, net>>

\* the parameter-level variables before initialize_model is called
NetIdle ==
  /\ ipc = 0
  /\ feat_extract = FALSE
  /\ use_pretrained = TRUE
  /\ n_classes = 1
  /\ requires_grad = <<>>
  /\ value = <<>>
  /\ fc_dims = <<0, 0>>
  /\ num_ftrs = 0
  /\ opt_params = {}
  /\ feat_width = 0
  /\ fc_fresh = FALSE
  /\ init_trace = <<>>
  /\ ret_value = <<>>
  /\ touched = {}
  /\ n_steps = 0

\* lines 39-45: entry of train_model
Init ==
  /\ pc = "epoch_loop"
  /\ n_epochs \in 0..MaxEpochs
  /\ epoch = -1
  /\ phase = "none"
  /\ model \in Weights
  /\ training = TRUE
  /\ it_rest = {}
  /\ it_pos = 0
  /\ running_loss = 0
  /\ running_corrects = 0
  /\ epoch_loss = -1
  /\ epoch_acc = Zero
  /\ best_acc = Zero
  /\ best_model_wts = model
  /\ val_acc_history = <<>>
  /\ model_path = NoFile
  /\ scheduler = [T_cur |-> 0, T_i |-> T_0]
  /\ writer = <<>>
  /\ lr_series = <<>>
  /\ returned = NoWts
  /\ seen = <<>>
  /\ batch_sizes = <<>>
  /\ batch_ops = <<>>
  /\ fwd_grad = TRUE
  /\ step_lr = <<-1, -1>>
  /\ last_step_wts = model
  /\ phase_log = <<>>
  /\ end_ops = <<>>
  /\ n_batches = 0
  /\ n_opt_steps = 0
  /\ n_sched_steps = 0
  /\ n_saves = 0
  /\ NetIdle

\* line 47 (and 120): the head of the epoch loop
EpochLoop ==
  /\ pc = "epoch_loop"
  /\ IF HasNextEpoch(epoch, n_epochs)
     THEN /\ epoch' = epoch + 1
          /\ pc' = "phase_loop"
     ELSE /\ epoch' = epoch
          /\ pc' = "finish"
  /\ UNCHANGED <<n_epochs, phase, model, training, it_rest, it_pos,
                 running_loss, running_corrects, epoch_loss, epoch_acc,
                 best_acc, best_model_wts, val_acc_history, model_path,
                 scheduler, writer, lr_series, returned>>
  /\ UNCHANGED hist
  /\ UNCHANGED net

\* lines 52-62: the head of the phase loop, mode switch, accumulator reset,
\* creation of the DataLoader iterator
PhaseLoop ==
  /\ pc = "phase_loop"
  /\ phase' = NextPhase(phase)
  /\ IF phase' = "none"
     THEN /\ pc' = "epoch_loop"
          /\ UNCHANGED <<training, it_rest, it_pos, running_loss,
                         running_corrects, epoch_loss, epoch_acc, seen,
                         batch_sizes>>
     ELSE /\ pc' = "batch_loop"
          /\ training' = TrainMode(phase')
          /\ running_loss' = ResetAccumulator(running_loss)
          /\ running_corrects' = ResetAccumulator(running_corrects)
          /\ epoch_loss' = -1
          /\ epoch_acc' = Zero
          /\ it_rest' = Dataset(phase')
          /\ it_pos' = 0
          /\ seen' = [x \in Dataset(phase') |-> 0]
          /\ batch_sizes' = <<>>
  /\ UNCHANGED <<n_epochs, epoch, model, best_acc, best_model_wts,
                 val_acc_history, model_path, scheduler, writer, lr_series,
                 returned>>
  /\ UNCHANGED <<batch_ops, fwd_grad, step_lr, last_step_wts, phase_log,
                 end_ops, n_batches, n_opt_steps, n_sched_steps, n_saves>>
  /\ UNCHANGED net

\* lines 62-88: one batch step
BatchStep ==
  /\ pc = "batch_loop"
  /\ ~Exhausted(it_rest)
  /\ \E batch \in NextBatches(it_rest) :
       /\ \E loss \in Losses :
            running_loss' = running_loss + loss * Cardinality(batch)
       /\ IF Optimizes(phase)
          THEN /\ \E w \in Weights :
                    /\ model' = w
                    /\ last_step_wts' = w
                    /\ best_model_wts' = Deepcopy(best_model_wts, w)
               /\ \E c \in 0..Cardinality(batch) :
                    running_corrects' = running_corrects + c
               /\ step_lr' = GetLastLr(scheduler)
               /\ n_opt_steps' = n_opt_steps + 1
          ELSE /\ running_corrects' =
                    running_corrects + EvalCorrects(model, batch)
               /\ UNCHANGED <<model, last_step_wts, step_lr, n_opt_steps,
                              best_model_wts>>
       /\ batch_ops' = BatchOps(phase)
       /\ fwd_grad' = GradEnabled(phase)
       /\ seen' = [x \in DOMAIN seen |->
                     IF x \in batch THEN seen[x] + 1 ELSE seen[x]]
       /\ batch_sizes' = Append(batch_sizes, Cardinality(batch))
       /\ it_rest' = AfterBatch(it_rest, batch)
  /\ it_pos' = it_pos + 1
  /\ n_batches' = n_batches + 1
  /\ pc' = "batch_loop"
  /\ UNCHANGED <<n_epochs, epoch, phase, training, epoch_loss,
                 epoch_acc, best_acc, val_acc_history,
                 model_path, scheduler, writer, lr_series, returned>>
  /\ UNCHANGED <<phase_log, end_ops, n_sched_steps, n_saves>>
  /\ UNCHANGED net

\* lines 90-119: the iterator is exhausted; epoch statistics, metric events,
\* in the train phase the scheduler step, in the validation phase the best
\* tracker.  When line 114 holds the action ends where torch.save has opened
\* (and so truncated) model_path, and SaveDone completes the phase.
PhaseEnd ==
  /\ pc = "batch_loop"
  /\ Exhausted(it_rest)
  /\ epoch_loss' = running_loss
  /\ epoch_acc' = Frac(running_corrects, DatasetLen(phase))
  /\ writer' = writer \o [i \in 1..Len(Scalars(phase)) |->
                            <<Scalars(phase)[i], epoch + 1>>]
  /\ end_ops' = EndOps(phase)
  /\ IF StepsScheduler(phase)
     THEN /\ lr_series' = Append(lr_series, LrScalar(scheduler))
          /\ scheduler' = SchedulerStep(scheduler)
          /\ n_sched_steps' = n_sched_steps + 1
     ELSE UNCHANGED <<lr_series, scheduler, n_sched_steps>>
  /\ IF Improves(phase, epoch_acc', best_acc)
     THEN /\ best_acc' = epoch_acc'
          /\ best_model_wts' = model
          /\ model_path' = [state |-> "partial", wts |-> NoWts, epoch |-> epoch]
          /\ pc' = "saving"
          /\ UNCHANGED <<val_acc_history, phase_log>>
     ELSE /\ val_acc_history' =
               IF phase = "val" THEN Append(val_acc_history, epoch_acc')
               ELSE val_acc_history
          /\ phase_log' = Append(phase_log, <<epoch, phase>>)
          /\ pc' = "phase_loop"
          /\ UNCHANGED <<best_acc, best_model_wts, model_path>>
  /\ UNCHANGED <<n_epochs, epoch, phase, model, training, it_rest, it_pos,
                 running_loss, running_corrects, returned>>
  /\ UNCHANGED <<seen, batch_sizes, batch_ops, fwd_grad, step_lr,
                 last_step_wts, n_batches, n_opt_steps, n_saves>>
  /\ UNCHANGED net

\* lines 117-119: torch.save finishes writing the state_dict; the
\* validation accuracy is appended to the history
SaveDone ==
  /\ pc = "saving"
  /\ model_path' = [state |-> "complete", wts |-> model, epoch |-> epoch]
  /\ n_saves' = n_saves + 1
  /\ val_acc_history' = Append(val_acc_history, epoch_acc)
  /\ phase_log' = Append(phase_log, <<epoch, phase>>)
  /\ pc' = "phase_loop"
  /\ UNCHANGED <<n_epochs, epoch, phase, model, training, it_rest, it_pos,
                 running_loss, running_corrects, epoch_loss, epoch_acc,
                 best_acc, best_model_wts, scheduler, writer, lr_series,
                 returned>>
  /\ UNCHANGED <<seen, batch_sizes, batch_ops, fwd_grad, step_lr,
                 last_step_wts, end_ops, n_batches, n_opt_steps,
                 n_sched_steps>>
  /\ UNCHANGED net

\* lines 122-127: summary and return
Finish ==
  /\ pc = "finish"
  /\ returned' = ReturnValue(model, best_model_wts)
  /\ pc' = "done"
  /\ UNCHANGED <<n_epochs, epoch, phase, model, training, it_rest, it_pos,
                 running_loss, running_corrects, epoch_loss, epoch_acc,
                 best_acc, best_model_wts, val_acc_history, model_path,
                 scheduler, writer, lr_series>>
  /\ UNCHANGED hist
  /\ UNCHANGED net

Next ==
  \/ EpochLoop
  \/ PhaseLoop
  \/ BatchStep
  \/ PhaseEnd
  \/ SaveDone
  \/ Finish

Spec == Init /\ [][Next]_vars

\* A fatal exception, a storage error or the termination of the process:
\* the run stops where it is; the file at model_path stays as it is
Abort ==
  /\ pc \notin {"done", "aborted"}
  /\ pc' = "aborted"
  /\ UNCHANGED <<n_epochs, epoch, phase, model, training, it_rest, it_pos,
                 running_loss, running_corrects, epoch_loss, epoch_acc,
                 best_acc, best_model_wts, val_acc_history, model_path,
                 scheduler, writer, lr_series, returned>>
  /\ UNCHANGED hist
  /\ UNCHANGED net

NextAbort ==
  \/ Next
  \/ Abort

SpecAbort == Init /\ [][NextAbort]_vars

\* ---------------------------------------------- the parameter-level view
\* train_model is not running
LoopIdle ==
  /\ pc = "not_called"
  /\ n_epochs = 0
  /\ epoch = -1
  /\ phase = "none"
  /\ model = {}
  /\ training = TRUE
  /\ it_rest = {}
  /\ it_pos = 0
  /\ running_loss = 0
  /\ running_corrects = 0
  /\ epoch_loss = -1
  /\ epoch_acc = Zero
  /\ best_acc = Zero
  /\ best_model_wts = {}
  /\ val_acc_history = <<>>
  /\ model_path = NoFile
  /\ scheduler = [T_cur |-> 0, T_i |-> T_0]
  /\ writer = <<>>
  /\ lr_series = <<>>
  /\ returned = NoWts
  /\ seen = <<>>
  /\ batch_sizes = <<>>
  /\ batch_ops = <<>>
  /\ fwd_grad = TRUE
  /\ step_lr = <<-1, -1>>
  /\ last_step_wts = {}
  /\ phase_log = <<>>
  /\ end_ops = <<>>
  /\ n_batches = 0
  /\ n_opt_steps = 0
  /\ n_sched_steps = 0
  /\ n_saves = 0

\* line 130: initialize_model is called
InitParams ==
  /\ LoopIdle
  /\ ipc = 1
  /\ feat_extract \in BOOLEAN
  /\ use_pretrained \in BOOLEAN
  /\ n_classes \in 1..MaxClasses
  /\ requires_grad = <<>>
  /\ value = <<>>
  /\ fc_dims = <<0, 0>>
  /\ num_ftrs = 0
  /\ opt_params = {}
  /\ feat_width = 0
  /\ fc_fresh = FALSE
  /\ init_trace = <<>>
  /\ ret_value = <<>>
  /\ touched = {}
  /\ n_steps = 0

\* the next statement of initialize_model is st
AtInitStep(st) == ipc \in 1..Len(InitSteps) /\ InitSteps[ipc] = st

\* line 26: model = current_model(pretrained=use_pretrained); every parameter
\* of a fresh module requires grad; the pretrained values are fixed, the
\* random ones are not
Load ==
  /\ AtInitStep("load")
  /\ requires_grad' = [l \in Layers |-> TRUE]
  /\ value' \in (IF use_pretrained THEN {[l \in Layers |-> 0]}
                 ELSE [Layers -> Vals])
  /\ \E w \in 1..MaxWidth, c \in 1..MaxClasses :
       /\ fc_dims' = <<w, c>>
       /\ feat_width' = w
  /\ fc_fresh' = FALSE
  /\ init_trace' = Append(init_trace, "load")
  /\ ipc' = ipc + 1
  /\ UNCHANGED <<feat_extract, use_pretrained, n_classes, num_ftrs,
                 opt_params, ret_value, touched, n_steps>>
  /\ UNCHANGED <<prog, hist>>

\* line 27: set_parameter_requires_grad(model, feat_extract)
Freeze ==
  /\ AtInitStep("freeze")
  /\ requires_grad' = SetParameterRequiresGrad(requires_grad, feat_extract)
  /\ init_trace' = Append(init_trace, "freeze")
  /\ ipc' = ipc + 1
  /\ UNCHANGED <<feat_extract, use_pretrained, n_classes, value, fc_dims,
                 num_ftrs, opt_params, feat_width, fc_fresh, ret_value,
                 touched, n_steps>>
  /\ UNCHANGED <<prog, hist>>

\* line 28: num_ftrs = model.fc.in_features
ReadFtrs ==
  /\ AtInitStep("read_ftrs")
  /\ num_ftrs' = fc_dims[1]
  /\ init_trace' = Append(init_trace, "read_ftrs")
  /\ ipc' = ipc + 1
  /\ UNCHANGED <<feat_extract, use_pretrained, n_classes, requires_grad,
                 value, fc_dims, opt_params, feat_width, fc_fresh, ret_value,
                 touched, n_steps>>
  /\ UNCHANGED <<prog, hist>>

\* line 29: model.fc = nn.Linear(num_ftrs, n_classes): a fresh layer with
\* fresh values, whose parameters require grad
Replace ==
  /\ AtInitStep("replace")
  /\ \E v \in Vals : value' = [value EXCEPT !["fc"] = v]
  /\ requires_grad' = [requires_grad EXCEPT !["fc"] = TRUE]
  /\ fc_dims' = <<num_ftrs, n_classes>>
  /\ fc_fresh' = TRUE
  /\ init_trace' = Append(init_trace, "replace")
  /\ ipc' = ipc + 1
  /\ UNCHANGED <<feat_extract, use_pretrained, n_classes, num_ftrs,
                 opt_params, feat_width, ret_value, touched, n_steps>>
  /\ UNCHANGED <<prog, hist>>

\* line 30: return model
Return ==
  /\ AtInitStep("return")
  /\ ret_value' = value
  /\ init_trace' = Append(init_trace, "return")
  /\ ipc' = ipc + 1
  /\ UNCHANGED <<feat_extract, use_pretrained, n_classes, requires_grad,
                 value, fc_dims, num_ftrs, opt_params, feat_width, fc_fresh,
                 touched, n_steps>>
  /\ UNCHANGED <<prog, hist>>

\* initialize_model has returned
Initialized == ipc = Len(InitSteps) + 1

\* line 177: optimizer_ft = optim.SGD(model_ft.parameters(), ...)
MakeOptimizer ==
  /\ Initialized
  /\ opt_params = {}
  /\ opt_params' = OptimizerParams(DOMAIN value)
  /\ UNCHANGED <<ipc, feat_extract, use_pretrained, n_classes, requires_grad,
                 value, fc_dims, num_ftrs, feat_width, fc_fresh, init_trace,
                 ret_value, touched, n_steps>>
  /\ UNCHANGED <<prog, hist>>

\* lines 83-84: loss.backward(); optimizer.step() of one train batch
TrainStep ==
  /\ Initialized
  /\ opt_params # {}
  /\ n_steps < MaxSteps
  /\ LET upd == Updated(opt_params, requires_grad)
     IN /\ value' \in {v \in [DOMAIN value -> Vals] :
                         \A l \in DOMAIN value : l \notin upd => v[l] = value[l]}
        /\ touched' = upd
  /\ n_steps' = n_steps + 1
  /\ UNCHANGED <<ipc, feat_extract, use_pretrained, n_classes, requires_grad,
                 fc_dims, num_ftrs, opt_params, feat_width, fc_fresh,
                 init_trace, ret_value>>
  /\ UNCHANGED <<prog, hist>>

NextParams ==
  \/ Load
  \/ Freeze
  \/ ReadFtrs
  \/ Replace
  \/ Return
  \/ MakeOptimizer
  \/ TrainStep

SpecParams == InitParams /\ [][NextParams]_vars

\* ------------------------------------------------------------ properties
Ceil(n, b) == (n + b - 1) \div b

RECURSIVE SumSeq(_)
SumSeq(q) == IF q = <<>> THEN 0 ELSE Head(q) + SumSeq(Tail(q))

\* the scheduler after k steps
RECURSIVE SchedAfter(_)
SchedAfter(k) ==
  IF k = 0 THEN [T_cur |-> 0, T_i |-> T_0] ELSE SchedulerStep(SchedAfter(k - 1))

\* validation accuracies of the completed validation phases
ValAccs == {val_acc_history[k] : k \in 1..Len(val_acc_history)}

\* the accuracy of weights w on the validation split
ValAccOf(w) == Frac(Cardinality(w \cap ValIdx), ValSize)

\* a is an upper bound of the fractions in S
IsMaxOver(a, S) == \A x \in S : GE(a, x)

\* completed phases of one kind
Completed(ph) == {k \in 1..Len(phase_log) : phase_log[k][2] = ph}

\* the loop is at the end of a validation phase body (line 114)
AtValEnd == pc = "batch_loop" /\ phase = "val" /\ Exhausted(it_rest)

\* C1: whenever a complete snapshot is at model_path it was written at the end
\* of a validation phase whose accuracy is the maximum of all validation
\* accuracies observed so far and it holds weights of that accuracy; the file
\* is written only with the live weights at the end of a validation phase
\* that beats every earlier one, never by a later, worse phase.
C1_SnapshotIsBest ==
  model_path.state = "complete" =>
    /\ model_path.epoch + 1 \in 1..Len(val_acc_history)
    /\ IsMaxOver(val_acc_history[model_path.epoch + 1], ValAccs)
    /\ EQ(ValAccOf(model_path.wts), val_acc_history[model_path.epoch + 1])

C1_WriteStep ==
  model_path' # model_path =>
    \/ /\ AtValEnd
       /\ model_path'.state = "partial"
       /\ \A a \in ValAccs : GT(epoch_acc', a)
    \/ /\ pc = "saving"
       /\ model_path' = [state |-> "complete", wts |-> model, epoch |-> epoch]
       /\ model = last_step_wts
       /\ EQ(ValAccOf(model), epoch_acc)
       /\ \A a \in ValAccs : GT(epoch_acc, a)

C1_PersistedSnapshotBest == []C1_SnapshotIsBest /\ [][C1_WriteStep]_vars

C1_Witness ==
  /\ model_path.state = "complete"
  /\ Len(val_acc_history) = 2
  /\ model_path.epoch = 0
  /\ GT(val_acc_history[1], val_acc_history[2])
  /\ model # model_path.wts

\* C2: best_acc starts at 0.0, never decreases, changes only at the end of a
\* validation phase, and always equals the maximum of 0.0 and every
\* validation accuracy seen so far.
C2_BestIsMax ==
  LET accs == {Zero} \cup ValAccs
                \cup (IF pc = "saving" THEN {epoch_acc} ELSE {})
  IN /\ IsMaxOver(best_acc, accs)
     /\ \E a \in accs : EQ(best_acc, a)

C2_BestStep ==
  /\ GE(best_acc', best_acc)
  /\ best_acc' # best_acc => AtValEnd /\ GT(best_acc', best_acc)

C2_BestAccMonotone ==
  /\ Init => best_acc = Zero
  /\ []C2_BestIsMax
  /\ [][C2_BestStep]_vars

C2_Witness ==
  /\ Len(val_acc_history) = 2
  /\ GT(val_acc_history[1], val_acc_history[2])
  /\ GT(val_acc_history[2], Zero)
  /\ EQ(best_acc, val_acc_history[1])

\* C3 as stated: any first validation accuracy >= 0 triggers a checkpoint
\* write, so a finished run of at least one epoch has written a checkpoint
\* and a finished one-epoch run exactly one, with one scheduler step.
C3_AnyAccuracyWrites ==
  pc = "done" /\ n_epochs >= 1 =>
    /\ n_saves >= 1
    /\ n_epochs = 1 => n_saves = 1 /\ n_sched_steps = 1

\* C3 amended: the first validation phase writes the first checkpoint exactly
\* when its accuracy is greater than 0; a run has written a checkpoint
\* exactly when some completed validation accuracy is greater than 0; a
\* finished one-epoch run has made one scheduler step and at most one
\* checkpoint write.
C3_PositiveAccuracyWrites ==
  /\ pc # "saving" /\ Len(val_acc_history) = 1 =>
       n_saves = (IF GT(val_acc_history[1], Zero) THEN 1 ELSE 0)
  /\ pc # "saving" =>
       (n_saves >= 1 <=> \E a \in ValAccs : GT(a, Zero))
  /\ pc = "done" /\ n_epochs = 1 =>
       /\ n_sched_steps = 1
       /\ Len(val_acc_history) = 1
       /\ n_saves <= 1

C3_Witness ==
  /\ pc = "done"
  /\ n_epochs = 1
  /\ n_saves = 1
  /\ n_sched_steps = 1
  /\ model_path.state = "complete"

\* C4 as stated: after an abort at any point, if a checkpoint had been
\* persisted, the file at model_path is an intact snapshot of the best
\* validation accuracy observed before the abort.
C4_CheckpointSurvivesAbort ==
  pc = "aborted" /\ n_saves >= 1 =>
    /\ model_path.state = "complete"
    /\ model_path.epoch + 1 \in 1..Len(val_acc_history)
    /\ IsMaxOver(val_acc_history[model_path.epoch + 1], ValAccs)

\* C5: a run with n_epochs = 0 never enters the loop body: no batch, no
\* optimizer or scheduler step, no metric event, no checkpoint; best_acc stays
\* 0.0, the tracker snapshot and the model keep the initial weights, and the
\* run ends by returning the model.
C5_ZeroEpochs ==
  n_epochs = 0 =>
    /\ pc \in {"epoch_loop", "finish", "done"}
    /\ epoch = -1 /\ phase = "none"
    /\ n_batches = 0 /\ n_opt_steps = 0 /\ n_sched_steps = 0
    /\ writer = <<>> /\ lr_series = <<>>
    /\ n_saves = 0 /\ model_path = NoFile
    /\ best_acc = Zero /\ val_acc_history = <<>>
    /\ best_model_wts = model /\ last_step_wts = model
    /\ pc = "done" => returned = model

C5_Witness == n_epochs = 0 /\ pc = "done" /\ returned = best_model_wts

\* C6: train_model returns the live model: at Done the returned weights are
\* those the last optimizer step produced, whatever the best snapshot holds.
C6_ReturnsFinalModel ==
  pc = "done" => returned = model /\ returned = last_step_wts

C6_Witness ==
  /\ pc = "done"
  /\ model_path.state = "complete"
  /\ model_path.epoch = 0
  /\ n_epochs = 2
  /\ returned # best_model_wts
  /\ returned # model_path.wts

\* C7: the completed phases are train, val of epoch 0, train, val of epoch 1,
\* ... with no gap and no repetition; the phase in progress is the one that
\* follows the last completed phase; a finished run has completed exactly
\* both phases of each epoch.
C7_PhaseOrder ==
  /\ \A k \in 1..Len(phase_log) :
       phase_log[k] = <<(k - 1) \div 2, Phases[((k - 1) % 2) + 1]>>
  /\ pc \in {"batch_loop", "saving"} =>
       /\ phase \in {"train", "val"}
       /\ Len(phase_log) = 2 * epoch + (IF phase = "train" THEN 0 ELSE 1)
  /\ pc = "phase_loop" =>
       Len(phase_log) = 2 * epoch + (IF phase = "none" THEN 0
                                     ELSE IF phase = "train" THEN 1 ELSE 2)
  /\ pc = "epoch_loop" => Len(phase_log) = 2 * (epoch + 1)
  /\ pc \in {"finish", "done"} => Len(phase_log) = 2 * n_epochs

C7_Witness ==
  /\ pc = "batch_loop"
  /\ phase = "train"
  /\ epoch = 1
  /\ it_pos = 1
  /\ phase_log = << <<0, "train">>, <<0, "val">> >>

\* C8: the scheduler has been stepped once per completed train phase: not yet
\* while the train batches of epoch e run, already when its validation
\* batches run; every optimizer step of epoch e uses the learning rate that
\* e scheduler steps produce; a finished run of n epochs has stepped n times.
C8_SchedulerOncePerEpoch ==
  /\ n_sched_steps = Cardinality(Completed("train"))
  /\ scheduler = SchedAfter(n_sched_steps)
  /\ pc = "batch_loop" /\ phase = "train" => n_sched_steps = epoch
  /\ pc \in {"batch_loop", "saving"} /\ phase = "val" =>
       n_sched_steps = epoch + 1
  /\ pc = "epoch_loop" => n_sched_steps = epoch + 1
  /\ pc = "batch_loop" /\ phase = "train" /\ it_pos > 0 =>
       step_lr = GetLastLr(SchedAfter(epoch))
  /\ pc \in {"finish", "done"} => n_sched_steps = n_epochs

C8_Witness ==
  /\ pc = "batch_loop"
  /\ phase = "train"
  /\ epoch = 1
  /\ it_pos = 2
  /\ n_sched_steps = 1
  /\ step_lr = <<1, T_0>>

\* C9: the weights change only in the batch step of a train phase, which is
\* an optimizer step; no other step (validation batch, metric recording,
\* scheduler step, checkpoint write, loop control) changes them.
C9_WeightsStep ==
  model' # model =>
    /\ pc = "batch_loop"
    /\ phase = "train"
    /\ ~Exhausted(it_rest)
    /\ n_opt_steps' = n_opt_steps + 1
    /\ model' = last_step_wts'

C9_OnlyOptimizerChangesWeights ==
  [](model = last_step_wts) /\ [][C9_WeightsStep]_vars

C9_Witness ==
  /\ pc = "phase_loop"
  /\ phase = "val"
  /\ epoch = 1
  /\ it_pos = Ceil(ValSize, BatchSize)
  /\ n_batches > n_opt_steps
  /\ model # best_model_wts

\* C10: in a phase over N samples with batch size b the loop takes the
\* batches one at a time: every batch but the last holds b samples, no sample
\* is in two batches, and when the phase ends there were ceil(N / b) batch
\* steps, every sample was in exactly one batch and N samples were processed;
\* over the run the batch steps add up accordingly.
C10_BatchesOncePerPhase ==
  /\ pc \in {"batch_loop", "saving"}
       \/ (pc = "phase_loop" /\ phase # "none") =>
       /\ DOMAIN seen = Dataset(phase)
       /\ Len(batch_sizes) = it_pos
       /\ \A x \in Dataset(phase) :
            seen[x] = (IF x \in it_rest THEN 0 ELSE 1)
       /\ SumSeq(batch_sizes) = Cardinality(Dataset(phase) \ it_rest)
       /\ \A k \in 1..Len(batch_sizes) :
            \/ batch_sizes[k] = BatchSize
            \/ /\ k = Len(batch_sizes)
               /\ it_rest = {}
               /\ batch_sizes[k] \in 1..BatchSize
  /\ pc = "saving" \/ (pc = "phase_loop" /\ phase # "none") =>
       /\ it_rest = {}
       /\ it_pos = Ceil(DatasetLen(phase), BatchSize)
       /\ SumSeq(batch_sizes) = DatasetLen(phase)
  /\ n_batches =
       Cardinality(Completed("train")) * Ceil(TrainSize, BatchSize)
       + Cardinality(Completed("val")) * Ceil(ValSize, BatchSize)
       + (IF pc = "batch_loop" \/ pc = "saving" THEN it_pos ELSE 0)
  /\ n_opt_steps =
       Cardinality(Completed("train")) * Ceil(TrainSize, BatchSize)
       + (IF pc = "batch_loop" /\ phase = "train" THEN it_pos ELSE 0)

C10_Witness ==
  /\ pc = "phase_loop"
  /\ phase = "train"
  /\ it_pos = Ceil(TrainSize, BatchSize)
  /\ it_pos * BatchSize > TrainSize
  /\ it_pos > 1
  /\ batch_sizes[it_pos] < BatchSize

\* the loop is past line 91 of the current phase
PhaseEnded == pc = "saving" \/ (pc = "phase_loop" /\ phase # "none")

\* C11: in every phase the accumulators start at zero, running_corrects never
\* exceeds the number of samples processed so far, running_loss is never
\* negative, and at the phase end epoch_acc = running_corrects / split size
\* lies in [0, 1] and epoch_loss = running_loss / split size is not negative.
C11_AccuracyInUnitInterval ==
  /\ pc = "batch_loop" /\ it_pos = 0 =>
       running_loss = 0 /\ running_corrects = 0
  /\ pc = "batch_loop" \/ PhaseEnded =>
       /\ running_corrects \in 0..SumSeq(batch_sizes)
       /\ SumSeq(batch_sizes) <= DatasetLen(phase)
       /\ running_loss >= 0
  /\ PhaseEnded =>
       /\ epoch_acc = Frac(running_corrects, DatasetLen(phase))
       /\ epoch_acc.d > 0
       /\ GE(epoch_acc, Zero)
       /\ GE(Frac(1, 1), epoch_acc)
       /\ epoch_loss = running_loss
       /\ epoch_loss >= 0

C11_Witness ==
  /\ pc = "phase_loop"
  /\ phase = "val"
  /\ epoch = 1
  /\ epoch_acc = Frac(ValSize, ValSize)
  /\ epoch_loss > 0
  /\ val_acc_history[1] = Frac(ValSize, ValSize)

\* phases whose end (lines 90-111) has run, in order
PhasesRecorded ==
  phase_log \o (IF pc = "saving" THEN << <<epoch, phase>> >> ELSE <<>>)

\* the scalars the claim expects for a sequence of finished phases
RECURSIVE ExpectedEvents(_)
ExpectedEvents(log) ==
  IF log = <<>> THEN <<>>
  ELSE LET e == Head(log)[1]
           ph == Head(log)[2]
       IN (IF ph = "train"
           THEN << <<"lr", e + 1>>, <<"training loss", e + 1>>,
                   <<"training acc", e + 1>> >>
           ELSE << <<"valid loss", e + 1>>, <<"valid acc", e + 1>> >>)
          \o ExpectedEvents(Tail(log))

\* the steps of the scalars of one tag, in emission order
SeriesSteps(tag) ==
  LET OfTag(ev) == ev[1] = tag
      evs == SelectSeq(writer, OfTag)
  IN [i \in 1..Len(evs) |-> evs[i][2]]

\* phases of one kind whose end has run
Recorded(ph) ==
  Cardinality({k \in 1..Len(PhasesRecorded) : PhasesRecorded[k][2] = ph})

\* C12: the writer holds, for every finished phase in order, exactly lr,
\* training loss, training acc (train) or valid loss, valid acc (validation)
\* with step epoch + 1, and nothing else (no scalar is written by a batch
\* step); each of the five series holds one scalar per finished phase of its
\* kind, with steps 1, 2, ..., k.
C12_ScalarsOncePerPhase ==
  /\ writer = ExpectedEvents(PhasesRecorded)
  /\ \A tag \in {"lr", "training loss", "training acc"} :
       SeriesSteps(tag) = [i \in 1..Recorded("train") |-> i]
  /\ \A tag \in {"valid loss", "valid acc"} :
       SeriesSteps(tag) = [i \in 1..Recorded("val") |-> i]
  /\ Len(writer) = 3 * Recorded("train") + 2 * Recorded("val")
  /\ Len(lr_series) = Recorded("train")
  /\ pc = "epoch_loop" =>
       Recorded("train") = epoch + 1 /\ Recorded("val") = epoch + 1

C12_Witness ==
  /\ pc = "epoch_loop"
  /\ epoch = 1
  /\ Len(writer) = 10
  /\ SeriesSteps("valid acc") = <<1, 2>>
  /\ SeriesSteps("lr") = <<1, 2>>
  /\ n_batches = 2 * (Ceil(TrainSize, BatchSize) + Ceil(ValSize, BatchSize))

\* numbers of correct predictions an evaluation pass with weights w over the
\* samples rest can end with, over every way the iterator may batch them
RECURSIVE EvalRuns(_, _)
EvalRuns(w, rest) ==
  IF Exhausted(rest) THEN {0}
  ELSE UNION {{EvalCorrects(w, b) + r : r \in EvalRuns(w, AfterBatch(rest, b))} :
                b \in NextBatches(rest)}

\* C13: a complete checkpoint holds weights whose accuracy on the validation
\* split is the accuracy recorded for the phase that wrote it; right after
\* the write the file holds the live weights, unchanged since the phase
\* began, and evaluating them over the validation split gives the recorded
\* epoch_acc whatever the batching.
C13_CheckpointReproducesAccuracy ==
  model_path.state = "complete" =>
    /\ model_path.epoch + 1 \in 1..Len(val_acc_history)
    /\ ValAccOf(model_path.wts) = val_acc_history[model_path.epoch + 1]
    /\ pc = "phase_loop" /\ phase = "val" /\ model_path.epoch = epoch =>
         /\ model_path.wts = model
         /\ model = last_step_wts
         /\ epoch_acc = val_acc_history[epoch + 1]
         /\ EvalRuns(model_path.wts, ValIdx) = {running_corrects}
         /\ epoch_acc = Frac(running_corrects, ValSize)

C13_Witness ==
  /\ model_path.state = "complete"
  /\ pc = "phase_loop"
  /\ phase = "val"
  /\ model_path.epoch = epoch
  /\ epoch = 1
  /\ it_pos > 1
  /\ running_corrects \in 1..(ValSize - 1)
  /\ EvalRuns(model_path.wts, ValIdx) = {running_corrects}

\* position of statement st in the executed statements (0: not executed)
TracePos(st) ==
  IF \E i \in 1..Len(init_trace) : init_trace[i] = st
  THEN CHOOSE i \in 1..Len(init_trace) : init_trace[i] = st
  ELSE 0

\* C14: with feat_extract true, after any number of training steps the
\* backbone's parameters equal the values initialize_model returned and only
\* the final layer is updated by optimizer.step(), although the optimizer
\* holds every parameter of the model.
C14_FrozenBackboneUnchanged ==
  Initialized /\ feat_extract =>
    /\ value["backbone"] = ret_value["backbone"]
    /\ opt_params # {} => opt_params = Layers
    /\ n_steps = 0 => touched = {}
    /\ n_steps > 0 => touched = {"fc"}

C14_Witness ==
  /\ Initialized
  /\ feat_extract
  /\ opt_params = Layers
  /\ n_steps = MaxSteps
  /\ value["fc"] # ret_value["fc"]
  /\ value["backbone"] = ret_value["backbone"]

\* C15: initialize_model freezes before it replaces the final layer: right
\* after the freeze with feat_extract true no existing parameter is
\* trainable; on return the final layer is the fresh one, trainable, with
\* the input width of the old final layer and n_classes outputs, the
\* backbone is trainable exactly when feat_extract is false.
C15_FreezeBeforeReplace ==
  /\ TracePos("replace") > 0 =>
       TracePos("freeze") \in 1..(TracePos("replace") - 1)
  /\ feat_extract /\ TracePos("freeze") > 0 /\ TracePos("replace") = 0 =>
       \A l \in Layers : ~requires_grad[l]
  /\ Initialized =>
       /\ fc_fresh
       /\ fc_dims = <<feat_width, n_classes>>
       /\ requires_grad["fc"]
       /\ requires_grad["backbone"] = ~feat_extract

C15_Witness ==
  /\ Initialized
  /\ feat_extract
  /\ requires_grad = [l \in Layers |-> l = "fc"]
  /\ fc_dims = <<MaxWidth, MaxClasses>>
  /\ opt_params = {}

\* the steps one epoch takes at most: the epoch head, three passes of the
\* phase head, every batch, two phase ends and one checkpoint write
EpochCost == Ceil(TrainSize, BatchSize) + Ceil(ValSize, BatchSize) + 7

\* the steps the current epoch has left at most
StepsLeftInEpoch ==
  CASE pc = "phase_loop" /\ phase = "none" -> EpochCost - 1
    [] pc = "batch_loop" /\ phase = "train" ->
         (Ceil(TrainSize, BatchSize) - it_pos) + Ceil(ValSize, BatchSize) + 5
    [] pc = "phase_loop" /\ phase = "train" -> Ceil(ValSize, BatchSize) + 4
    [] pc = "batch_loop" /\ phase = "val" ->
         (Ceil(ValSize, BatchSize) - it_pos) + 3
    [] pc = "saving" -> 2
    [] pc = "phase_loop" /\ phase = "val" -> 1
    [] OTHER -> 0

\* the steps the call has left at most before it has returned
StepsLeft ==
  CASE pc = "done" -> 0
    [] pc = "finish" -> 1
    [] OTHER -> 2 + (n_epochs - (epoch + 1)) * EpochCost + StepsLeftInEpoch

\* the loop is left exactly when n train phases and n validation phases
\* are complete, and until the call has returned a step is possible
C16_DoneExactlyAfterN ==
  /\ pc \in {"finish", "done"} =>
       /\ Cardinality(Completed("train")) = n_epochs
       /\ Cardinality(Completed("val")) = n_epochs
  /\ Len(phase_log) = 2 * n_epochs => pc \notin {"batch_loop", "saving"}
  /\ Len(phase_log) <= 2 * n_epochs
  /\ Len(phase_log) < 2 * n_epochs => pc \notin {"finish", "done"}
  /\ StepsLeft >= 0
  /\ pc = "done" <=> StepsLeft = 0
  /\ pc # "done" => ENABLED Next

\* every step brings the return nearer, and nothing runs after it
C16_Progress ==
  /\ StepsLeft' < StepsLeft
  /\ pc # "done"

\* C16: a run with n_epochs = n and no fatal error reaches Done after
\* exactly n train phases and n validation phases: the number of steps left
\* is bounded by n, falls with every step, a step is possible until Done,
\* and nothing runs after Done.
C16_TerminatesAfterNEpochs ==
  /\ []C16_DoneExactlyAfterN
  /\ [][C16_Progress]_vars

C16_Witness ==
  /\ pc = "done"
  /\ n_epochs = MaxEpochs
  /\ Cardinality(Completed("train")) = MaxEpochs
  /\ Cardinality(Completed("val")) = MaxEpochs
  /\ n_batches = MaxEpochs * (Ceil(TrainSize, BatchSize) + Ceil(ValSize, BatchSize))

\* ---------------------------------------------------------------- C17
\* the batches of the train phases consumed so far
TrainBatchesConsumed ==
  Cardinality(Completed("train")) * Ceil(TrainSize, BatchSize)
    + (IF pc = "batch_loop" /\ phase = "train" THEN it_pos ELSE 0)

\* the batches of the validation phases consumed so far
ValBatchesConsumed ==
  Cardinality(Completed("val")) * Ceil(ValSize, BatchSize)
    + (IF pc \in {"batch_loop", "saving"} /\ phase = "val" THEN it_pos ELSE 0)

\* C17: every batch step runs zero_grad, forward, loss, preds, then stats;
\* the forward pass tracks gradients exactly in the train phase; backward
\* and one optimizer step sit between the forward pass and the statistics
\* exactly in the train phase; so at every point of the run the number of
\* optimizer steps equals the number of train batches consumed.
C17_BatchStepOrder ==
  /\ (pc = "batch_loop" /\ it_pos > 0) =>
       /\ phase = "train" =>
            /\ batch_ops = <<"zero_grad", "forward", "loss", "preds",
                             "backward", "step", "stats">>
            /\ fwd_grad
       /\ phase = "val" =>
            /\ batch_ops = <<"zero_grad", "forward", "loss", "preds",
                             "stats">>
            /\ ~fwd_grad
  /\ n_opt_steps = TrainBatchesConsumed
  /\ n_batches = TrainBatchesConsumed + ValBatchesConsumed

C17_Witness ==
  /\ pc = "batch_loop"
  /\ phase = "val"
  /\ epoch = 1
  /\ it_pos = Ceil(ValSize, BatchSize)
  /\ ~fwd_grad
  /\ n_opt_steps = 2 * Ceil(TrainSize, BatchSize)
  /\ n_batches = 2 * Ceil(TrainSize, BatchSize) + 2 * Ceil(ValSize, BatchSize)

\* ---------------------------------------------------------------- C18
\* the lr events of the writer, in the order they were written
LrEvents == SelectSeq(writer, LAMBDA ev : ev[1] = "lr")

\* C18: the lr event with step e+1 carries the learning rate the scheduler
\* gave after e steps, which is the rate the optimizer steps of epoch index
\* e used (the initial rate for the first epoch), and a train phase end runs
\* lr event, scheduler step, training loss event, training acc event in
\* that order.
C18_LrReadBeforeStep ==
  /\ Len(lr_series) = n_sched_steps
  /\ LrEvents = [k \in 1..Len(lr_series) |-> <<"lr", k>>]
  /\ \A k \in 1..Len(lr_series) :
       /\ lr_series[k] = GetLastLr(SchedAfter(k - 1))
       /\ lr_series[k] # GetLastLr(SchedAfter(k))
  /\ Len(lr_series) > 0 => lr_series[1] = <<0, T_0>>
  /\ Len(lr_series) = epoch + 1 /\ epoch >= 0 =>
       /\ lr_series[epoch + 1] = step_lr
       /\ scheduler = SchedAfter(epoch + 1)
  /\ (pc = "phase_loop" /\ phase = "train") =>
       /\ Len(lr_series) = epoch + 1
       /\ end_ops = <<"lr", "scheduler.step", "training loss",
                      "training acc">>

C18_Witness ==
  /\ pc = "phase_loop"
  /\ phase = "train"
  /\ epoch = 1
  /\ lr_series = << <<0, T_0>>, <<1, T_0>> >>
  /\ step_lr = <<1, T_0>>
  /\ scheduler.T_cur = 2

\* ---------------------------------------------------------------- C19
\* the validation phases whose accuracy strictly exceeds 0.0 and every
\* earlier validation accuracy
StrictRecords ==
  {k \in 1..Len(val_acc_history) :
     /\ GT(val_acc_history[k], Zero)
     /\ \A j \in 1..(k - 1) : GT(val_acc_history[k], val_acc_history[j])}

\* the validation phases that attained the maximum of the history first
EarliestMax ==
  {k \in 1..Len(val_acc_history) :
     /\ \A j \in 1..Len(val_acc_history) :
          GE(val_acc_history[k], val_acc_history[j])
     /\ \A j \in 1..(k - 1) : ~EQ(val_acc_history[k], val_acc_history[j])}

\* C19: an accuracy equal to best_acc writes nothing and leaves the tracker
\* alone: the number of checkpoint writes equals the number of validation
\* phases whose accuracy strictly exceeds 0.0 and every earlier one, and a
\* written file belongs to the earliest epoch that attained the maximum
\* validation accuracy, as does the tracker.
C19_TieKeepsEarliest ==
  /\ n_saves = Cardinality(StrictRecords)
  /\ pc # "saving" =>
       /\ model_path.state = "absent" <=> StrictRecords = {}
       /\ model_path.state # "partial"
       /\ model_path.state = "complete" =>
            /\ EarliestMax = {model_path.epoch + 1}
            /\ EQ(best_acc, val_acc_history[model_path.epoch + 1])
            /\ best_model_wts = model_path.wts
       /\ model_path.state = "absent" => best_acc = Zero

C19_Witness ==
  /\ pc = "done"
  /\ Len(val_acc_history) = 2
  /\ GT(val_acc_history[1], Zero)
  /\ EQ(val_acc_history[2], val_acc_history[1])
  /\ n_saves = 1
  /\ model_path.state = "complete"
  /\ model_path.epoch = 0
  /\ model # model_path.wts

\* ---------------------------------------------------------------- C20
\* the tracker snapshot starts as a copy of the initial weights
C20_TrackerInit == (pc = "epoch_loop" /\ epoch = -1) => best_model_wts = model

\* once a checkpoint was written and no write is in progress, tracker and
\* file hold the same weights, whose validation accuracy is best_acc
C20_TrackerIsFile ==
  /\ (n_saves = 0 /\ pc # "saving") =>
       /\ model_path = NoFile
       /\ best_acc = Zero
  /\ (n_saves > 0 /\ pc # "saving") =>
       /\ model_path.state = "complete"
       /\ best_model_wts = model_path.wts
       /\ EQ(ValAccOf(best_model_wts), best_acc)

\* the tracker changes only at the end of a validation phase that raises
\* best_acc, to the weights the model has at that point; the file is
\* written only from the tracker's weights
C20_TrackerStep ==
  /\ best_model_wts' # best_model_wts =>
       /\ AtValEnd
       /\ GT(best_acc', best_acc)
       /\ best_model_wts' = model
       /\ model' = model
       /\ pc' = "saving"
  /\ model_path'.state = "complete" /\ model_path' # model_path =>
       /\ pc = "saving"
       /\ model_path'.wts = best_model_wts
       /\ best_model_wts' = best_model_wts

\* C20: best_model_wts is a point-in-time copy: it is the initial weights
\* until the first checkpoint write, from then on it equals the content of
\* the file at model_path, both are the weights at the end of the validation
\* phase that last raised best_acc, and optimizer steps on the live model
\* never change it.
C20_SnapshotIsPointInTime ==
  /\ C20_TrackerInit
  /\ []C20_TrackerIsFile
  /\ [][C20_TrackerStep]_vars

C20_Witness ==
  /\ pc = "batch_loop"
  /\ phase = "val"
  /\ epoch = 1
  /\ n_saves = 1
  /\ n_opt_steps = 2 * Ceil(TrainSize, BatchSize)
  /\ model_path.state = "complete"
  /\ best_model_wts = model_path.wts
  /\ model # best_model_wts
  /\ last_step_wts = model


====
